---- MODULE Spec2Model ----
(***************************************************************************)
(* The two game servers of rps-fighting-game-server as one state machine.  *)
(*                                                                         *)
(*   variant = "alt"  src/server.js         submit_attack / submit_defense *)
(*   variant = "sim"  src/unnamed/part_000  submit_move + processBattle    *)
(*                                                                         *)
(* A behaviour is one server process: the variant is fixed by Init.  Each  *)
(* socket handler is one action; the node event loop runs a handler to    *)
(* completion, so a handler is atomic.  The delayed deletion scheduled by  *)
(* leave_game is a separate action (the setTimeout callback).              *)
(*                                                                         *)
(* emitted holds what a handler emits before it returns; the broadcasts a  *)
(* handler defers with setTimeout (the game_state_update after a join or a *)
(* resolution, the second attack_animation) change no state and are not in *)
(* it.                                                                     *)
(*                                                                         *)
(* JavaScript null is the string Null.  A log line is modelled by the      *)
(* kind of the message (its template), not by its interpolated text.       *)
(* The multiplier 0.5 is kept exact by carrying twice the multiplier.      *)
(***************************************************************************)
EXTENDS Integers, Sequences, FiniteSets, TLC

VARIABLES
  variant,        \* which server file is running
  games,          \* const games = {} : gameId -> Game
  removalTimers,  \* gameId -> number of pending setTimeout(delete games[gameId])
  emitted,        \* what the last step emitted synchronously (see Emit)
  crashed,        \* an exception escaped a handler: the process is gone
  resolved        \* history: gameId -> the stored pendingAttack has been resolved

vars == <<variant, games, removalTimers, emitted, crashed, resolved>>

\* ---------------------------------------------------------------- bounds
\* The log is prepended to without limit; a handler that would prepend is cut
\* off once the log holds this many lines (one bound per server file).
MaxLogAlt == 7
MaxLogSim == 15
\* Pending removal timers per game id; leave_game is cut off at MaxTimers.
MaxTimers == 2
\* log lines after which the one-round specification stops following a session
MaxLogRound == 3
\* log lines up to which a duel is followed: the longest game prepends 3 lines
\* per resolution to the line of join_game
MaxLogDuelAlt == 117
MaxLogDuelSim == 60

\* ---------------------------------------------------------------- inputs
Null == "null"
GameIds == {"G1"}
RegistryIds == {"G1", "G2"}
AllGameIds == GameIds \cup RegistryIds
PlayerIds == {"A", "B"}
PlayerNames == {"Ann"}
MoveTypes == {"rock", "paper", "scissors"}
\* The moves the clients send in play: rock against scissors is super, rock
\* against rock normal, scissors against rock not effective; paper adds no tier.
PlayedMoves == {"rock", "scissors"}
\* The values of Math.floor(Math.random() * 5) drawn in play.
Jitters == {0}
\* Math.floor(Math.random() * 5)
AllJitters == 0..4

\* ---------------------------------------------------------------- constants
InitialHealth == 100
BaseAttack == 15
BaseDefense == 5
MinDamage == 5
\* SUPER_EFFECTIVE, NORMAL_EFFECTIVE, NOT_EFFECTIVE, each times two
SUPER_EFFECTIVE2 == 4
NORMAL_EFFECTIVE2 == 2
NOT_EFFECTIVE2 == 1

Max(a, b) == IF a >= b THEN a ELSE b

\* ---------------------------------------------------------------- pure functions
\* mutant: the beats relation is reversed
getEffectivenessMultiplier_Reversed(attackType, defenseType) ==
  IF \/ (attackType = "scissors" /\ defenseType = "rock")
     \/ (attackType = "paper" /\ defenseType = "scissors")
     \/ (attackType = "rock" /\ defenseType = "paper")
  THEN [multiplier2 |-> SUPER_EFFECTIVE2, type |-> "super"]
  ELSE IF attackType = defenseType
  THEN [multiplier2 |-> NORMAL_EFFECTIVE2, type |-> "normal"]
  ELSE [multiplier2 |-> NOT_EFFECTIVE2, type |-> "not"]

getEffectivenessMultiplier(attackType, defenseType) ==
  IF \/ (attackType = "rock" /\ defenseType = "scissors")
     \/ (attackType = "scissors" /\ defenseType = "paper")
     \/ (attackType = "paper" /\ defenseType = "rock")
  THEN [multiplier2 |-> SUPER_EFFECTIVE2, type |-> "super"]
  ELSE IF attackType = defenseType
  THEN [multiplier2 |-> NORMAL_EFFECTIVE2, type |-> "normal"]
  ELSE [multiplier2 |-> NOT_EFFECTIVE2, type |-> "not"]

\* mutant: the floor of 5 is missing
Damage_Unclamped(attack, multiplier2, defense, jitter) ==
  (attack * multiplier2 - 2 * defense + 2 * jitter) \div 2

\* Math.max(5, Math.floor(attack * multiplier - defense + jitter))
Damage(attack, multiplier2, defense, jitter) ==
  Max(MinDamage, (attack * multiplier2 - 2 * defense + 2 * jitter) \div 2)

\* Math.max(0, health - damage)
ApplyDamage(health, damage) == Max(0, health - damage)

\* players.find(pred): the index of the first match, 0 for undefined
FindById(players, playerId) ==
  LET hits == {i \in 1..Len(players) : players[i].id = playerId}
  IN IF hits = {} THEN 0 ELSE CHOOSE i \in hits : \A j \in hits : i <= j

FindOther(players, playerId) ==
  LET hits == {i \in 1..Len(players) : players[i].id # playerId}
  IN IF hits = {} THEN 0 ELSE CHOOSE i \in hits : \A j \in hits : i <= j

\* players.filter(p => p.id !== playerId)
FilterOut(players, playerId) == SelectSeq(players, LAMBDA p : p.id # playerId)

NoAttack == [playerId |-> Null, attackType |-> Null]

\* ---------------------------------------------------------------- emissions
\* room: the game id of the request; error: the message of socket.emit("error"),
\* Null when none; events: the names of the other events emitted by the step;
\* payload: the game sent with game_state_update, if that event is emitted.
Emit(room, error, events) ==
  [room |-> room, error |-> error, events |-> events, payload |-> << >>]

\* io.to(gameId).emit("game_state_update", game), with the step's other events
EmitState(room, events, game) ==
  [room |-> room, error |-> Null, events |-> events \cup {"game_state_update"},
   payload |-> <<game>>]

\* {...game, phase: "game_over", winner: otherPlayer.id, gameLog: [left, ...]}
LeftPayload(game, otherId) ==
  [game EXCEPT !.phase = "game_over", !.winner = otherId,
               !.gameLog = <<"left">> \o @]

NoEmit == Emit(Null, Null, {})

\* ---------------------------------------------------------------- registry
Has(gameId) == gameId \in DOMAIN games

Put(gameId, game) ==
  [k \in DOMAIN games \cup {gameId} |-> IF k = gameId THEN game ELSE games[k]]

Delete(gameId) == [k \in DOMAIN games \ {gameId} |-> games[k]]

\* An uncaught TypeError in a handler ends the process and its memory.
Throw ==
  /\ crashed' = TRUE
  /\ games' = << >>
  /\ removalTimers' = [g \in AllGameIds |-> 0]
  /\ resolved' = [g \in AllGameIds |-> FALSE]
  /\ emitted' = NoEmit
  /\ UNCHANGED variant

\* games[gameId] = {...} of create_game, per variant
NewPlayerAlt(playerId, playerName) ==
  [id |-> playerId, name |-> playerName, health |-> InitialHealth,
   maxHealth |-> InitialHealth, attack |-> BaseAttack, defense |-> BaseDefense,
   currentAttackType |-> Null, currentDefenseType |-> Null]

NewPlayerSim(playerId, playerName) ==
  [id |-> playerId, name |-> playerName, health |-> InitialHealth,
   maxHealth |-> InitialHealth, attack |-> BaseAttack, defense |-> BaseDefense,
   currentAttackType |-> Null, currentDefenseType |-> Null, ready |-> FALSE]

\* Object.values(games).filter(waiting and < 2 players).map(players[0].name ...)
\* throws when a listed game has no first player.
AvailableGamesThrows(gs) ==
  \E k \in DOMAIN gs :
    gs[k].phase = "waiting" /\ Len(gs[k].players) < 2 /\ Len(gs[k].players) = 0

Init ==
  /\ variant \in {"alt", "sim"}
  /\ games = << >>
  /\ removalTimers = [g \in AllGameIds |-> 0]
  /\ emitted = NoEmit
  /\ crashed = FALSE
  /\ resolved = [g \in AllGameIds |-> FALSE]

\* ================================================================ src/server.js
NewGameAlt(gameId, playerId, playerName) ==
  [id |-> gameId,
   players |-> <<NewPlayerAlt(playerId, playerName)>>,
   currentTurn |-> Null,
   currentTurnType |-> "attack",
   pendingAttack |-> NoAttack,
   phase |-> "waiting",
   winner |-> Null,
   gameLog |-> <<"waiting_for_opponent">>]

\* const gameId = generateGameId(): six random base-36 characters, any id at all
generateGameId(ids) == ids

\* mutant: the capacity check is off by one
JoinFull_OffByOne(game) == Len(game.players) > 2

\* if (game.players.length >= 2)
JoinFull(game) == Len(game.players) >= 2

\* the body of join_game after its two checks
JoinedAlt(game, playerId, playerName) ==
  LET players == Append(game.players, NewPlayerAlt(playerId, playerName))
  IN [game EXCEPT !.players = players,
                  !.phase = "selection",
                  !.currentTurn = players[1].id,
                  !.currentTurnType = "attack",
                  !.pendingAttack = NoAttack,
                  !.gameLog = <<"joined">>]

\* mutant: the turn type is not checked
NotYourTurnToAttack_TurnOnly(game, playerId) == game.currentTurn # playerId

\* if (game.currentTurn !== playerId || game.currentTurnType !== TURN_TYPE.ATTACK)
NotYourTurnToAttack(game, playerId) ==
  game.currentTurn # playerId \/ game.currentTurnType # "attack"

\* the body of submit_attack after its checks; i: the player, d: the defender
Attacked(game, i, d, playerId, attackType) ==
  [game EXCEPT !.players[i].currentAttackType = attackType,
               !.pendingAttack = [playerId |-> playerId, attackType |-> attackType],
               !.currentTurn = game.players[d].id,
               !.currentTurnType = "defend",
               !.gameLog = <<"chose_attack">> \o @]

\* if (defender.health <= 0)
DefenderDown(health) == health <= 0

\* the body of submit_defense after its checks; d: the defender, a: the attacker
Defended(game, d, a, defenseType, jitter) ==
  LET attackType == game.pendingAttack.attackType
      eff == getEffectivenessMultiplier(attackType, defenseType)
      damage == Damage(game.players[a].attack, eff.multiplier2,
                       game.players[d].defense, jitter)
      health == ApplyDamage(game.players[d].health, damage)
      hit == [game EXCEPT !.players[d].currentDefenseType = defenseType,
                          !.players[d].health = health,
                          !.gameLog = <<"defended", "dealt_damage">> \o @]
  IN IF DefenderDown(health)
     THEN [hit EXCEPT !.phase = "game_over",
                      !.winner = game.players[a].id,
                      !.gameLog = <<"wins">> \o @]
     ELSE [hit EXCEPT !.currentTurn = game.players[d].id,
                      !.currentTurnType = "attack",
                      !.pendingAttack = NoAttack]

\* game.players = game.players.filter(p => p.id !== playerId)
LeftAlt(game, playerId) == [game EXCEPT !.players = FilterOut(@, playerId)]

alt_create_game(gameId, playerId, playerName) ==
  /\ ~crashed /\ variant = "alt"
  /\ LET after == Put(gameId, NewGameAlt(gameId, playerId, playerName))
     IN IF AvailableGamesThrows(after) THEN Throw
        ELSE /\ games' = after
             /\ resolved' = [resolved EXCEPT ![gameId] = FALSE]
             /\ emitted' = Emit(gameId, Null, {"game_joined", "available_games"})
             /\ UNCHANGED <<variant, removalTimers, crashed>>

alt_join_game(gameId, playerId, playerName) ==
  /\ ~crashed /\ variant = "alt"
  /\ IF ~Has(gameId)
     THEN /\ emitted' = Emit(gameId, "Game not found", {})
          /\ UNCHANGED <<variant, games, removalTimers, crashed, resolved>>
     ELSE IF JoinFull(games[gameId])
     THEN /\ emitted' = Emit(gameId, "Game is full", {})
          /\ UNCHANGED <<variant, games, removalTimers, crashed, resolved>>
     ELSE LET after == Put(gameId, JoinedAlt(games[gameId], playerId, playerName))
          IN IF AvailableGamesThrows(after) THEN Throw
             ELSE /\ games' = after
                  /\ resolved' = [resolved EXCEPT ![gameId] = FALSE]
                  /\ emitted' = Emit(gameId, Null, {"game_joined", "available_games"})
                  /\ UNCHANGED <<variant, removalTimers, crashed>>

\* the handler, followed while the log is shorter than maxLog
submit_attack_upto(maxLog, gameId, playerId, attackType) ==
  /\ ~crashed /\ variant = "alt"
  /\ IF ~Has(gameId)
     THEN /\ emitted' = Emit(gameId, "Game not found", {})
          /\ UNCHANGED <<variant, games, removalTimers, crashed, resolved>>
     ELSE LET game == games[gameId]
              i == FindById(game.players, playerId)
              d == FindOther(game.players, playerId)
          IN IF i = 0
             THEN /\ emitted' = Emit(gameId, "Player not found in game", {})
                  /\ UNCHANGED <<variant, games, removalTimers, crashed, resolved>>
             ELSE IF NotYourTurnToAttack(game, playerId)
             THEN /\ emitted' = Emit(gameId, "Not your turn to attack", {})
                  /\ UNCHANGED <<variant, games, removalTimers, crashed, resolved>>
             ELSE IF d = 0 THEN Throw   \* defender.id of undefined
             ELSE /\ Len(game.gameLog) < maxLog
                  /\ games' = Put(gameId, Attacked(game, i, d, playerId, attackType))
                  /\ resolved' = [resolved EXCEPT ![gameId] = FALSE]
                  /\ emitted' = EmitState(gameId, {},
                                          Attacked(game, i, d, playerId, attackType))
                  /\ UNCHANGED <<variant, removalTimers, crashed>>

submit_attack(gameId, playerId, attackType) ==
  submit_attack_upto(MaxLogAlt, gameId, playerId, attackType)

\* the handler, followed while the log is shorter than maxLog
submit_defense_upto(maxLog, gameId, playerId, defenseType, jitter) ==
  /\ ~crashed /\ variant = "alt"
  /\ IF ~Has(gameId)
     THEN /\ emitted' = Emit(gameId, "Game not found", {})
          /\ UNCHANGED <<variant, games, removalTimers, crashed, resolved>>
     ELSE LET game == games[gameId]
              d == FindById(game.players, playerId)
              a == FindById(game.players, game.pendingAttack.playerId)
          IN IF d = 0
             THEN /\ emitted' = Emit(gameId, "Player not found in game", {})
                  /\ UNCHANGED <<variant, games, removalTimers, crashed, resolved>>
             ELSE IF game.pendingAttack = NoAttack
             THEN Throw                 \* game.pendingAttack.playerId of null
             ELSE IF a = 0 THEN Throw   \* attacker.attack of undefined
             ELSE LET after == Defended(game, d, a, defenseType, jitter)
                  IN /\ Len(game.gameLog) < maxLog
                     /\ games' = Put(gameId, after)
                     /\ resolved' = [resolved EXCEPT ![gameId] = TRUE]
                     /\ emitted' = Emit(gameId, Null,
                          IF DefenderDown(after.players[d].health)
                          THEN {"attack_animation", "game_over"}
                          ELSE {"attack_animation"})
                     /\ UNCHANGED <<variant, removalTimers, crashed>>

submit_defense(gameId, playerId, defenseType, jitter) ==
  submit_defense_upto(MaxLogAlt, gameId, playerId, defenseType, jitter)

alt_leave_game(gameId, playerId) ==
  /\ ~crashed /\ variant = "alt"
  /\ IF ~Has(gameId)
     THEN /\ emitted' = Emit(gameId, Null, {})
          /\ UNCHANGED <<variant, games, removalTimers, crashed, resolved>>
     ELSE LET game == LeftAlt(games[gameId], playerId)
              after == IF Len(game.players) > 0 THEN Put(gameId, game)
                                                 ELSE Delete(gameId)
          IN IF AvailableGamesThrows(after) THEN Throw
             ELSE IF Len(game.players) > 0
             THEN /\ removalTimers[gameId] < MaxTimers
                  /\ games' = after
                  /\ removalTimers' = [removalTimers EXCEPT ![gameId] = @ + 1]
                  /\ emitted' = EmitState(gameId, {"available_games"},
                                          LeftPayload(game, game.players[1].id))
                  /\ UNCHANGED <<variant, crashed, resolved>>
             ELSE /\ games' = after
                  /\ resolved' = [resolved EXCEPT ![gameId] = FALSE]
                  /\ emitted' = Emit(gameId, Null, {"available_games"})
                  /\ UNCHANGED <<variant, removalTimers, crashed>>

\* mutant: the callback deletes only a session without players
TimerDeletes_IfEmpty(gameId) ==
  IF Has(gameId) /\ Len(games[gameId].players) = 0 THEN Delete(gameId) ELSE games

\* delete games[gameId]
TimerDeletes(gameId) == Delete(gameId)

\* setTimeout(() => { delete games[gameId] }, 5000), in both files
removal_timer(gameId) ==
  /\ ~crashed
  /\ removalTimers[gameId] > 0
  /\ removalTimers' = [removalTimers EXCEPT ![gameId] = @ - 1]
  /\ games' = TimerDeletes(gameId)
  /\ resolved' = [resolved EXCEPT ![gameId] = FALSE]
  /\ emitted' = NoEmit
  /\ UNCHANGED <<variant, crashed>>

NextAlt ==
  \/ \E g \in generateGameId(GameIds), p \in PlayerIds, n \in PlayerNames :
       alt_create_game(g, p, n)
  \/ \E g \in GameIds, p \in PlayerIds, n \in PlayerNames : alt_join_game(g, p, n)
  \/ \E g \in GameIds, p \in PlayerIds, t \in PlayedMoves : submit_attack(g, p, t)
  \/ \E g \in GameIds, p \in PlayerIds, t \in PlayedMoves, j \in Jitters :
       submit_defense(g, p, t, j)
  \/ \E g \in GameIds, p \in PlayerIds : alt_leave_game(g, p)
  \/ \E g \in GameIds : removal_timer(g)

InitAlt == Init /\ variant = "alt"

SpecAlt == InitAlt /\ [][NextAlt]_vars

\* ================================================================ src/unnamed/part_000
NewGameSim(gameId, playerId, playerName) ==
  [id |-> gameId,
   players |-> <<NewPlayerSim(playerId, playerName)>>,
   currentTurn |-> Null,
   phase |-> "waiting",
   winner |-> Null,
   gameLog |-> <<"waiting_for_opponent">>]

\* the body of join_game after its two checks
JoinedSim(game, playerId, playerName) ==
  LET players == Append(game.players, NewPlayerSim(playerId, playerName))
  IN [game EXCEPT !.players = players,
                  !.phase = "selection",
                  !.currentTurn = players[1].id,
                  !.gameLog = <<"joined">>]

\* if (game.currentTurn !== playerId)
NotYourTurn(game, playerId) == game.currentTurn # playerId

\* if (player1.health <= 0 || player2.health <= 0) and the winner it chooses
BattleOver(h1, h2) == h1 <= 0 \/ h2 <= 0

\* mutant: the draw branch is missing
BattleWinner_NoDraw(h1, h2, id1, id2) == IF h1 <= 0 THEN id2 ELSE id1

BattleWinner(h1, h2, id1, id2) ==
  IF h1 <= 0 /\ h2 <= 0 THEN Null
  ELSE IF h1 <= 0 THEN id2
  ELSE id1

\* processBattle(game, io); j1, j2: the two draws of Math.random
processBattle(game, j1, j2) ==
  LET player1 == game.players[1]
      player2 == game.players[2]
      p1Effectiveness ==
        getEffectivenessMultiplier(player1.currentAttackType, player2.currentDefenseType)
      p1Damage == Damage(player1.attack, p1Effectiveness.multiplier2, player2.defense, j1)
      p2Effectiveness ==
        getEffectivenessMultiplier(player2.currentAttackType, player1.currentDefenseType)
      p2Damage == Damage(player2.attack, p2Effectiveness.multiplier2, player1.defense, j2)
      h2 == ApplyDamage(player2.health, p1Damage)
      h1 == ApplyDamage(player1.health, p2Damage)
      hit == [game EXCEPT !.players[1].health = h1,
                          !.players[2].health = h2,
                          !.gameLog = <<"attacks", "attacks">> \o @]
  IN IF BattleOver(h1, h2)
     THEN [hit EXCEPT !.phase = "game_over",
                      !.winner = BattleWinner(h1, h2, player1.id, player2.id),
                      !.gameLog = <<IF h1 <= 0 /\ h2 <= 0 THEN "draw" ELSE "wins">> \o @]
     ELSE [hit EXCEPT !.players[1].currentAttackType = Null,
                      !.players[1].currentDefenseType = Null,
                      !.players[1].ready = FALSE,
                      !.players[2].currentAttackType = Null,
                      !.players[2].currentDefenseType = Null,
                      !.players[2].ready = FALSE,
                      !.phase = "selection",
                      !.currentTurn = player1.id]

\* player.currentAttackType = ...; player.currentDefenseType = ...; player.ready = true
Moved(game, i, attackType, defenseType) ==
  [game EXCEPT !.players[i].currentAttackType = attackType,
               !.players[i].currentDefenseType = defenseType,
               !.players[i].ready = TRUE]

\* game.players.every((p) => p.ready)
allPlayersReady(game) == \A k \in 1..Len(game.players) : game.players[k].ready

\* the else branch of submit_move: switch turns and log
Switched(game, playerId) ==
  LET o == FindOther(game.players, playerId)
  IN [game EXCEPT !.currentTurn = IF o = 0 THEN Null ELSE game.players[o].id,
                  !.gameLog = <<"has_chosen">> \o @]

sim_create_game(gameId, playerId, playerName) ==
  /\ ~crashed /\ variant = "sim"
  /\ games' = Put(gameId, NewGameSim(gameId, playerId, playerName))
  /\ emitted' = Emit(gameId, Null, {"game_joined"})
  /\ UNCHANGED <<variant, removalTimers, crashed, resolved>>

sim_join_game(gameId, playerId, playerName) ==
  /\ ~crashed /\ variant = "sim"
  /\ IF ~Has(gameId)
     THEN /\ emitted' = Emit(gameId, "Game not found", {})
          /\ UNCHANGED <<variant, games, removalTimers, crashed, resolved>>
     ELSE IF JoinFull(games[gameId])
     THEN /\ emitted' = Emit(gameId, "Game is full", {})
          /\ UNCHANGED <<variant, games, removalTimers, crashed, resolved>>
     ELSE /\ games' = Put(gameId, JoinedSim(games[gameId], playerId, playerName))
          /\ emitted' = EmitState(gameId, {"game_joined"},
                                  JoinedSim(games[gameId], playerId, playerName))
          /\ UNCHANGED <<variant, removalTimers, crashed, resolved>>

\* the handler, followed while the log is shorter than maxLog
submit_move_upto(maxLog, gameId, playerId, attackType, defenseType, j1, j2) ==
  /\ ~crashed /\ variant = "sim"
  /\ IF ~Has(gameId)
     THEN /\ emitted' = Emit(gameId, "Game not found", {})
          /\ UNCHANGED <<variant, games, removalTimers, crashed, resolved>>
     ELSE LET game == games[gameId]
              i == FindById(game.players, playerId)
          IN IF i = 0
             THEN /\ emitted' = Emit(gameId, "Player not found in game", {})
                  /\ UNCHANGED <<variant, games, removalTimers, crashed, resolved>>
             ELSE IF NotYourTurn(game, playerId)
             THEN /\ emitted' = Emit(gameId, "Not your turn", {})
                  /\ UNCHANGED <<variant, games, removalTimers, crashed, resolved>>
             ELSE LET moved == Moved(game, i, attackType, defenseType)
                  IN /\ Len(game.gameLog) < maxLog
                     /\ IF allPlayersReady(moved)
                        THEN IF Len(moved.players) < 2
                             THEN Throw   \* player2.currentDefenseType of undefined
                             ELSE LET after == processBattle(moved, j1, j2)
                                  IN /\ games' = Put(gameId, after)
                                     /\ emitted' = Emit(gameId, Null,
                                          IF after.phase = "game_over"
                                          THEN {"attack_animation", "game_over"}
                                          ELSE {"attack_animation"})
                                     /\ UNCHANGED <<variant, removalTimers, crashed, resolved>>
                        ELSE /\ games' = Put(gameId, Switched(moved, playerId))
                             /\ emitted' = EmitState(gameId, {}, Switched(moved, playerId))
                             /\ UNCHANGED <<variant, removalTimers, crashed, resolved>>

submit_move(gameId, playerId, attackType, defenseType, j1, j2) ==
  submit_move_upto(MaxLogSim, gameId, playerId, attackType, defenseType, j1, j2)

sim_leave_game(gameId, playerId) ==
  /\ ~crashed /\ variant = "sim"
  /\ IF ~Has(gameId)
     THEN /\ emitted' = Emit(gameId, Null, {})
          /\ UNCHANGED <<variant, games, removalTimers, crashed, resolved>>
     ELSE /\ removalTimers[gameId] < MaxTimers
          /\ removalTimers' = [removalTimers EXCEPT ![gameId] = @ + 1]
          /\ emitted' =
               LET o == FindOther(games[gameId].players, playerId)
               IN IF o # 0
                  THEN EmitState(gameId, {},
                         LeftPayload(games[gameId], games[gameId].players[o].id))
                  ELSE Emit(gameId, Null, {})
          /\ UNCHANGED <<variant, games, crashed, resolved>>

NextSim ==
  \/ \E g \in generateGameId(GameIds), p \in PlayerIds, n \in PlayerNames :
       sim_create_game(g, p, n)
  \/ \E g \in GameIds, p \in PlayerIds, n \in PlayerNames : sim_join_game(g, p, n)
  \/ \E g \in GameIds, p \in PlayerIds, a \in PlayedMoves, d \in PlayedMoves,
        j1 \in Jitters, j2 \in Jitters : submit_move(g, p, a, d, j1, j2)
  \/ \E g \in GameIds, p \in PlayerIds : sim_leave_game(g, p)
  \/ \E g \in GameIds : removal_timer(g)

InitSim == Init /\ variant = "sim"

SpecSim == InitSim /\ [][NextSim]_vars

Next == NextAlt \/ NextSim

Spec == Init /\ [][Next]_vars

\* A setTimeout callback of a live process runs once its delay has passed.
FairSpec == Spec /\ WF_vars(\E g \in GameIds : removal_timer(g))

\* The registry operations of both servers over two game ids.
NextRegistry ==
  \/ \E g \in generateGameId(RegistryIds), p \in PlayerIds, n \in PlayerNames :
       alt_create_game(g, p, n)
  \/ \E g \in generateGameId(RegistryIds), p \in PlayerIds, n \in PlayerNames :
       sim_create_game(g, p, n)
  \/ \E g \in RegistryIds, p \in PlayerIds, n \in PlayerNames : alt_join_game(g, p, n)
  \/ \E g \in RegistryIds, p \in PlayerIds, n \in PlayerNames : sim_join_game(g, p, n)
  \/ \E g \in RegistryIds, p \in PlayerIds : alt_leave_game(g, p)
  \/ \E g \in RegistryIds, p \in PlayerIds : sim_leave_game(g, p)
  \/ \E g \in RegistryIds : removal_timer(g)

RegistrySpec == Init /\ [][NextRegistry]_vars

\* ================================================================ claims
\* the request shapes, in either server
JoinStep(g, p) ==
  \E n \in PlayerNames : alt_join_game(g, p, n) \/ sim_join_game(g, p, n)

SubmitStep(g, p) ==
  \/ \E t \in PlayedMoves : submit_attack(g, p, t)
  \/ \E a \in PlayedMoves, d \in PlayedMoves, j1 \in Jitters, j2 \in Jitters :
       submit_move(g, p, a, d, j1, j2)

NotTurnHolder(game, p) ==
  \/ game.currentTurn # p
  \/ variant = "alt" /\ game.currentTurnType # "attack"

NotYourTurnErrors == {"Not your turn", "Not your turn to attack"}

\* C1: in both variants no session ever holds more than 2 players, and a
\* join_game on a session that already has 2 players is answered with the
\* error 'Game is full' and leaves the registry, hence that session, unchanged.
C1_AtMostTwoPlayers ==
  /\ [](\A g \in DOMAIN games : Len(games[g].players) <= 2)
  /\ [][\A g \in GameIds, p \in PlayerIds :
          (Has(g) /\ Len(games[g].players) >= 2 /\ JoinStep(g, p))
            => (emitted'.error = "Game is full" /\ games' = games)]_vars

C1_Witness ==
  /\ emitted.error = "Game is full"
  /\ Has(emitted.room)
  /\ Len(games[emitted.room].players) = 2

\* C2 as stated: a submit_move / submit_attack whose playerId is not the current
\* turn (or, in the alternating server, not in turn mode attack) is answered
\* with a not-your-turn error and changes nothing in the registry.
C2_Original ==
  [][\A g \in GameIds, p \in PlayerIds :
       (Has(g) /\ NotTurnHolder(games[g], p) /\ SubmitStep(g, p))
         => (emitted'.error \in NotYourTurnErrors /\ games' = games)]_vars

\* C2 amended: such a request changes nothing in the registry and is answered
\* with an error: not-your-turn when the requester is a player of the session,
\* 'Player not found in game' when it is not.
C2_NonTurnHolderRejected ==
  [][\A g \in GameIds, p \in PlayerIds :
       (Has(g) /\ NotTurnHolder(games[g], p) /\ SubmitStep(g, p))
         => /\ games' = games
            /\ emitted'.error =
                 IF FindById(games[g].players, p) = 0 THEN "Player not found in game"
                 ELSE IF variant = "alt" THEN "Not your turn to attack"
                 ELSE "Not your turn"]_vars

C2_Witness ==
  /\ emitted.error \in NotYourTurnErrors
  /\ Has(emitted.room)
  /\ Len(games[emitted.room].players) = 2
  /\ games[emitted.room].currentTurn # Null

DefenseStep(g, p) ==
  \E t \in PlayedMoves, j \in Jitters : submit_defense(g, p, t, j)

LeaveStep(g, p) == alt_leave_game(g, p) \/ sim_leave_game(g, p)

CreateStep(g) ==
  \E p \in PlayerIds, n \in PlayerNames :
    alt_create_game(g, p, n) \/ sim_create_game(g, p, n)

\* the step emitted attack_animation: it resolved a battle in room g
Resolution(e, g) == e.room = g /\ "attack_animation" \in e.events

\* C3 as stated, for a session with an attack pending: a submit_defense by a
\* player who is not the turn holder, or outside turn mode defend, is answered
\* with an error and leaves the registry unchanged; in particular the player
\* who attacked cannot defend against the own attack.
C3_Claim ==
  [][\A g \in GameIds, p \in PlayerIds :
       (/\ variant = "alt" /\ Has(g)
        /\ FindById(games[g].players, p) # 0
        /\ games[g].pendingAttack # NoAttack
        /\ (games[g].currentTurn # p \/ games[g].currentTurnType # "defend")
        /\ DefenseStep(g, p))
         => (emitted'.error # Null /\ games' = games)]_vars

\* C4 as stated: every resolution resolves a pending attack that no earlier
\* resolution has resolved, and leaves the attacker's health unchanged.
C4_Claim ==
  [][\A g \in GameIds :
       (/\ variant = "alt" /\ Has(g) /\ Resolution(emitted', g)
        /\ \E p \in PlayerIds : DefenseStep(g, p))
         => /\ games[g].pendingAttack # NoAttack
            /\ ~resolved[g]
            /\ \A i \in 1..Len(games[g].players) :
                 games[g].players[i].id = games[g].pendingAttack.playerId
                   => games'[g].players[i].health = games[g].players[i].health]_vars

\* C5: in the simultaneous server, right after a battle resolution: both healths
\* <= 0 gives game_over with no winner; exactly one health <= 0 gives game_over
\* with the other player as winner; no health <= 0 gives a phase other than
\* game_over and no winner.
C5_BattleOutcome ==
  \A g \in DOMAIN games :
    (variant = "sim" /\ Resolution(emitted, g)) =>
      LET game == games[g]
          h1 == game.players[1].health
          h2 == game.players[2].health
      IN /\ (h1 <= 0 /\ h2 <= 0) => (game.phase = "game_over" /\ game.winner = Null)
         /\ (h1 <= 0 /\ h2 > 0)
              => (game.phase = "game_over" /\ game.winner = game.players[2].id)
         /\ (h1 > 0 /\ h2 <= 0)
              => (game.phase = "game_over" /\ game.winner = game.players[1].id)
         /\ (h1 > 0 /\ h2 > 0) => (game.phase # "game_over" /\ game.winner = Null)

C5_Witness ==
  \E g \in DOMAIN games :
    /\ variant = "sim" /\ Resolution(emitted, g)
    /\ games[g].players[1].health <= 0
    /\ games[g].players[2].health > 0
    /\ games[g].winner = games[g].players[2].id

\* C6 as stated: in every session of the registry, phase = waiting exactly when
\* the session has fewer than 2 players.
C6_Claim ==
  \A g \in DOMAIN games :
    (games[g].phase = "waiting") <=> (Len(games[g].players) < 2)

\* C7 as stated: after a player of a 2-player session leaves, the stored session
\* has phase game_over and the remaining player as winner.
C7_Claim ==
  [][\A g \in GameIds, p \in PlayerIds :
       (/\ Has(g)
        /\ Len(games[g].players) = 2
        /\ FindById(games[g].players, p) # 0
        /\ FindOther(games[g].players, p) # 0
        /\ LeaveStep(g, p))
         => /\ g \in DOMAIN games'
            /\ games'[g].phase = "game_over"
            /\ games'[g].winner = games[g].players[FindOther(games[g].players, p)].id]_vars

C9_Claim ==
  [][\A g \in RegistryIds :
       CreateStep(g)
         => (~Has(g) /\ Cardinality(DOMAIN games') = Cardinality(DOMAIN games) + 1)]_vars

\* C10 as stated: right after a resolution that does not end the game, in both
\* servers, both players' currentAttackType and currentDefenseType are null and
\* the phase is selection.
C10_Claim ==
  \A g \in DOMAIN games :
    (Resolution(emitted, g) /\ "game_over" \notin emitted.events) =>
      /\ games[g].phase = "selection"
      /\ \A i \in 1..Len(games[g].players) :
           /\ games[g].players[i].currentAttackType = Null
           /\ games[g].players[i].currentDefenseType = Null

\* C11 as stated: in the alternating server a submit_defense that arrives while
\* no attack is pending is answered with an error, does not throw out of the
\* handler, and leaves the session as it was (so that the next valid
\* submit_attack is still accepted).
C11_Claim ==
  [][\A g \in GameIds, p \in PlayerIds :
       (/\ variant = "alt" /\ Has(g)
        /\ FindById(games[g].players, p) # 0
        /\ games[g].pendingAttack = NoAttack
        /\ DefenseStep(g, p))
         => (~crashed' /\ emitted'.error # Null /\ games' = games)]_vars

\* C12 as stated: in the alternating server, whenever a resolution puts the
\* session in game_over, the winner is the id of a player of the session whose
\* health is above 0, and the other player's health is 0.
C12_Claim ==
  \A g \in GameIds :
    (/\ variant = "alt" /\ Has(g)
     /\ Resolution(emitted, g) /\ "game_over" \in emitted.events)
      => /\ games[g].phase = "game_over"
         /\ games[g].winner # Null
         /\ \E i \in 1..Len(games[g].players) :
              /\ games[g].players[i].id = games[g].winner
              /\ games[g].players[i].health > 0
              /\ \A k \in 1..Len(games[g].players) :
                   k # i => games[g].players[k].health = 0

\* ================================================================ one round
\* The registry after create_game by A and join_game by B, in either server.
JoinedInit ==
  /\ variant \in {"alt", "sim"}
  /\ games = [g \in GameIds |->
               IF variant = "alt"
               THEN JoinedAlt(NewGameAlt(g, "A", "Ann"), "B", "Ann")
               ELSE JoinedSim(NewGameSim(g, "A", "Ann"), "B", "Ann")]
  /\ removalTimers = [g \in AllGameIds |-> 0]
  /\ emitted = IF variant = "alt"
               THEN Emit("G1", Null, {"game_joined", "available_games"})
               ELSE EmitState("G1", {"game_joined"},
                      JoinedSim(NewGameSim("G1", "A", "Ann"), "B", "Ann"))
  /\ crashed = FALSE
  /\ resolved = [g \in AllGameIds |-> FALSE]

\* The submit handlers with every move type and every jitter, followed for the
\* first round of a session.
NextRound ==
  \/ \E g \in GameIds, p \in PlayerIds, t \in MoveTypes :
       submit_attack_upto(MaxLogRound, g, p, t)
  \/ \E g \in GameIds, p \in PlayerIds, t \in MoveTypes, j \in AllJitters :
       submit_defense_upto(MaxLogRound, g, p, t, j)
  \/ \E g \in GameIds, p \in PlayerIds, a \in MoveTypes, d \in MoveTypes,
        j1 \in AllJitters, j2 \in AllJitters :
       submit_move_upto(MaxLogRound, g, p, a, d, j1, j2)

RoundSpec == JoinedInit /\ [][NextRound]_vars

\* the claimed multiplier table and damage, for attack 15 and defense 5
Beats == {<<"rock", "scissors">>, <<"scissors", "paper">>, <<"paper", "rock">>}

ClaimedDamage(attackType, defenseType, jitter) ==
  IF <<attackType, defenseType>> \in Beats THEN 25 + jitter   \* 15 * 2 - 5 + jitter
  ELSE IF attackType = defenseType THEN 10 + jitter           \* 15 * 1 - 5 + jitter
  ELSE IF 2 + jitter > 5 THEN 2 + jitter ELSE 5               \* max(5, floor(7.5 - 5 + jitter))

\* C14: every damage computed in a resolution, for each of the 9 (attack type,
\* defense type) combinations and each jitter in 0..4, is
\* max(5, floor(attack * multiplier - defense + jitter)) with multiplier 2 when
\* the attack beats the defense, 1 when the types are equal and 0.5 otherwise,
\* and is at least 5: the health of the player hit drops by exactly that value.
C14_DamageFormula ==
  /\ \A a \in MoveTypes, d \in MoveTypes, j \in AllJitters :
       LET e == getEffectivenessMultiplier(a, d)
       IN /\ Damage(BaseAttack, e.multiplier2, BaseDefense, j) = ClaimedDamage(a, d, j)
          /\ Damage(BaseAttack, e.multiplier2, BaseDefense, j) >= 5
  /\ [][\A g \in GameIds, p \in PlayerIds, d \in MoveTypes, j \in AllJitters :
          (/\ variant = "alt" /\ Has(g)
           /\ FindById(games[g].players, p) # 0
           /\ games[g].pendingAttack # NoAttack
           /\ submit_defense_upto(MaxLogRound, g, p, d, j))
            => LET i == FindById(games[g].players, p)
                   dealt == ClaimedDamage(games[g].pendingAttack.attackType, d, j)
               IN /\ dealt >= 5
                  /\ games'[g].players[i].health = games[g].players[i].health - dealt]_vars
  /\ [][\A g \in GameIds, p \in PlayerIds, a \in MoveTypes, d \in MoveTypes,
           j1 \in AllJitters, j2 \in AllJitters :
          (/\ variant = "sim" /\ Has(g)
           /\ games[g].currentTurn = p
           /\ \E k \in 1..2 : games[g].players[k].ready
           /\ submit_move_upto(MaxLogRound, g, p, a, d, j1, j2))
            => LET i == FindById(games[g].players, p)
                   p1 == IF i = 1 THEN [a |-> a, d |-> d]
                         ELSE [a |-> games[g].players[1].currentAttackType,
                               d |-> games[g].players[1].currentDefenseType]
                   p2 == IF i = 2 THEN [a |-> a, d |-> d]
                         ELSE [a |-> games[g].players[2].currentAttackType,
                               d |-> games[g].players[2].currentDefenseType]
               IN /\ games'[g].players[2].health =
                       games[g].players[2].health - ClaimedDamage(p1.a, p2.d, j1)
                  /\ games'[g].players[1].health =
                       games[g].players[1].health - ClaimedDamage(p2.a, p1.d, j2)]_vars

\* a resolution with the weakest attack and the largest jitter: damage 6
C14_Witness ==
  \E g \in GameIds :
    /\ Has(g) /\ Resolution(emitted, g)
    /\ \E i \in 1..2 : games[g].players[i].health = InitialHealth - 6

\* the session of create_game by A, join_game by B, after A has submitted
\* attack rock and defense scissors and before B has submitted
AfterFirstMove(game) ==
  /\ Len(game.players) = 2
  /\ game.players[1].id = "A" /\ game.players[2].id = "B"
  /\ game.players[1].health = InitialHealth /\ game.players[2].health = InitialHealth
  /\ game.players[1].ready /\ ~game.players[2].ready
  /\ game.players[1].currentAttackType = "rock"
  /\ game.players[1].currentDefenseType = "scissors"
  /\ game.phase = "selection" /\ game.winner = Null
  /\ game.currentTurn = "B"

\* C15: in the simultaneous server, after create_game by A and join_game by B,
\* when A and then B have each submitted attack rock and defense scissors and
\* both jitters are 0, each attack has dealt 25 damage: both healths are 75, the
\* phase is selection, currentTurn is A and there is no winner.
C15_FirstRound ==
  [][\A g \in GameIds :
       (/\ variant = "sim" /\ Has(g)
        /\ AfterFirstMove(games[g])
        /\ submit_move(g, "B", "rock", "scissors", 0, 0))
         => /\ games'[g].players[1].health = InitialHealth - 25
            /\ games'[g].players[2].health = InitialHealth - 25
            /\ games'[g].players[1].health = 75
            /\ games'[g].players[2].health = 75
            /\ games'[g].phase = "selection"
            /\ games'[g].currentTurn = "A"
            /\ games'[g].winner = Null]_vars

\* the state right after that resolution
C15_Witness ==
  \E g \in GameIds :
    /\ variant = "sim" /\ Has(g) /\ Resolution(emitted, g)
    /\ Len(games[g].gameLog) = 4
    /\ games[g].players[1].id = "A" /\ games[g].players[2].id = "B"
    /\ games[g].players[1].health = 75 /\ games[g].players[2].health = 75
    /\ games[g].currentTurn = "A"

\* the fields C17 is about
Outcome(game) ==
  [health |-> [k \in 1..Len(game.players) |-> game.players[k].health],
   winner |-> game.winner, phase |-> game.phase, currentTurn |-> game.currentTurn]

\* C17 as stated: game_over is absorbing: once a session's phase is game_over,
\* no later submit_move, submit_attack or submit_defense changes any player's
\* health, the winner, the phase or currentTurn of that session.
C17_Claim ==
  [][\A g \in GameIds, p \in PlayerIds :
       (/\ Has(g) /\ games[g].phase = "game_over"
        /\ (SubmitStep(g, p) \/ DefenseStep(g, p)))
         => (g \in DOMAIN games' /\ Outcome(games'[g]) = Outcome(games[g]))]_vars

\* ================================================================ duel
\* A joined session in which nobody leaves, followed until it is over. The
\* requests come from either player, in or out of turn. Scissors against rock
\* is the weakest attack (damage 5), which gives the longest games; the
\* simultaneous server is also played with the defense scissors (damage 10).
DuelAttacks == {"scissors"}
DuelDefensesAlt == {"rock"}
DuelDefensesSim == PlayedMoves

Playing(g) == Has(g) /\ games[g].phase # "game_over"

NextDuel ==
  \/ \E g \in GameIds, p \in PlayerIds, t \in DuelAttacks :
       Playing(g) /\ submit_attack_upto(MaxLogDuelAlt, g, p, t)
  \/ \E g \in GameIds, p \in PlayerIds, t \in DuelDefensesAlt, j \in Jitters :
       Playing(g) /\ submit_defense_upto(MaxLogDuelAlt, g, p, t, j)
  \/ \E g \in GameIds, p \in PlayerIds, a \in DuelAttacks, d \in DuelDefensesSim,
        j1 \in Jitters, j2 \in Jitters :
       Playing(g) /\ submit_move_upto(MaxLogDuelSim, g, p, a, d, j1, j2)

DuelSpec == JoinedInit /\ [][NextDuel]_vars

\* a valid move submitted by the turn holder
TurnHolderSubmits ==
  \E g \in GameIds, p \in PlayerIds :
    /\ Playing(g) /\ games[g].currentTurn = p
    /\ IF variant = "sim"
       THEN \E a \in DuelAttacks, d \in DuelDefensesSim, j1 \in Jitters, j2 \in Jitters :
              submit_move_upto(MaxLogDuelSim, g, p, a, d, j1, j2)
       ELSE IF games[g].currentTurnType = "attack"
       THEN \E t \in DuelAttacks : submit_attack_upto(MaxLogDuelAlt, g, p, t)
       ELSE \E t \in DuelDefensesAlt, j \in Jitters :
              submit_defense_upto(MaxLogDuelAlt, g, p, t, j)

\* The turn holder always eventually submits a valid move.
DuelFairSpec == DuelSpec /\ WF_vars(TurnHolderSubmits)

RECURSIVE Count(_, _)
Count(seq, x) ==
  IF seq = << >> THEN 0
  ELSE (IF Head(seq) = x THEN 1 ELSE 0) + Count(Tail(seq), x)

\* resolutions since join_game: submit_defense logs one damage line per
\* resolution, processBattle two attack lines
Resolutions(game) ==
  IF variant = "alt" THEN Count(game.gameLog, "dealt_damage")
  ELSE Count(game.gameLog, "attacks") \div 2

GameOver == \E g \in GameIds : Has(g) /\ games[g].phase = "game_over"

\* at most 20 resolutions in the simultaneous server, 39 in the alternating one
WithinResolutions ==
  \A g \in GameIds :
    Has(g) =>
      /\ Resolutions(games[g]) <= (IF variant = "sim" THEN 20 ELSE 39)
      /\ games[g].phase # "game_over" =>
           Resolutions(games[g]) < (IF variant = "sim" THEN 20 ELSE 39)

\* C13 as stated: a 2-player session in which nobody leaves and the turn holder
\* always eventually submits a valid move eventually reaches phase game_over,
\* after at most 20 resolutions (simultaneous) or 39 resolutions (alternating).
C13_Claim == <>GameOver /\ []WithinResolutions

\* what does hold: such a session is over within those resolutions unless a
\* handler has thrown
C13_UnlessThrown == <>(GameOver \/ crashed) /\ []WithinResolutions

\* C18 as stated: a removal timer scheduled by leave_game never deletes a
\* session that has 2 players and phase selection at the moment it fires, and a
\* session with a pending removal never accepts a join_game.
C18_Claim ==
  [][\A g \in GameIds :
       /\ (/\ Has(g)
           /\ Len(games[g].players) = 2
           /\ games[g].phase = "selection"
           /\ removal_timer(g))
            => g \in DOMAIN games'
       /\ \A p \in PlayerIds :
            (Has(g) /\ removalTimers[g] > 0 /\ JoinStep(g, p))
              => (emitted'.error # Null /\ games' = games)]_vars

\* C19 as stated: a leave_game whose playerId is not a player of the session
\* leaves the session and the registry unchanged: no winner is broadcast, no
\* removal is scheduled, and the game continues.
C19_Claim ==
  [][\A g \in GameIds, p \in PlayerIds :
       (/\ Has(g)
        /\ FindById(games[g].players, p) = 0
        /\ LeaveStep(g, p))
         => /\ games' = games
            /\ removalTimers' = removalTimers
            /\ "game_state_update" \notin emitted'.events]_vars

\* C20 as stated: the players of a session always have pairwise distinct ids;
\* a join_game with the host's own playerId does not add a second player
\* with that id.
C20_Claim ==
  \A g \in DOMAIN games :
    \A i \in 1..Len(games[g].players), k \in 1..Len(games[g].players) :
      i # k => games[g].players[i].id # games[g].players[k].id

\* the fields of a session that C16 compares
Snapshot(game) ==
  [phase |-> game.phase, winner |-> game.winner, players |-> game.players,
   currentTurn |-> game.currentTurn, gameLog |-> game.gameLog]

\* C16 as stated: every game_state_update broadcast to a session's room carries
\* the session's stored state at the moment of emission: its phase, winner,
\* players, currentTurn and log equal those of the session in the registry.
C16_Claim ==
  "game_state_update" \in emitted.events =>
    /\ Has(emitted.room)
    /\ Len(emitted.payload) = 1
    /\ Snapshot(emitted.payload[1]) = Snapshot(games[emitted.room])

\* a session whose winner is set while its phase is not game_over
WinnerBeforeOver(game) == game.winner # Null /\ game.phase # "game_over"

\* C21 as stated: in every reachable state the stored winner is a player id
\* only if the stored phase is game_over, and no resolution, leave_game and
\* join_game sequence gives a session in phase selection or waiting whose
\* winner is already set or whose players do not all start the game, at the
\* join_game that starts it, with health 100.
C21_Claim ==
  /\ [](\A g \in DOMAIN games : ~WinnerBeforeOver(games[g]))
  /\ [][\A g \in GameIds, p \in PlayerIds :
          (Has(g) /\ ~JoinFull(games[g]) /\ JoinStep(g, p))
            => (g \in DOMAIN games'
                  => /\ games'[g].winner = Null
                     /\ \A k \in 1..Len(games'[g].players) :
                          games'[g].players[k].health = InitialHealth)]_vars

====
